---------------------------- MODULE Spec2Model ----------------------------
(***************************************************************************)
(* time_segment_matching (src/srm/SRM.ipynb, lines 183-222): leave-one-out  *)
(* time-segment-matching decoding on sliding-window segments.               *)
(*                                                                          *)
(* Matrices are functions over 0-based index ranges, as in the source:      *)
(* M[r][c] with r \in 0..R-1 and c \in 0..C-1.  Real arithmetic is exact:   *)
(* a z-scored column is kept as its integer direction vector with the       *)
(* positive scale factor beside it, a correlation r as the signed square    *)
(* sign(r)*r^2 (a rational), an accuracy as the rational num/den.           *)
(***************************************************************************)
EXTENDS Integers, Sequences, FiniteSets, TLC

VARIABLES
  data,       \* the argument: subject -> matrix (ndim x nsample each)
  win_size,   \* the argument
  pc,         \* "start", "accumulate", "analyze", "done" (returned), "raised"
  error,      \* the exception that ended the call, "none" otherwise
  nsubjs, ndim, nsample, nseg,
  accuracy,   \* subject -> rational [num, den]
  trn_data,   \* the group sum
  m,          \* subjects accumulated so far (loop of line 193)
  tst_subj,   \* subjects analysed so far (loop of line 198)
  tst_data, A, B, corr_mtx, max_idx,   \* locals of the last iteration
  template,   \* the temporary trn_data - tst_data of the last iteration
  printed,    \* the per-subject reports printed so far
  summary,    \* mean and variance of the final report
  writes,     \* ghost: subject -> number of assignments to accuracy[subject]
  reads,      \* ghost: the time indices requested by the slices of line 201
  wpc,        \* parallel evaluation: subject -> "idle", "built", "done"
  wloc        \* parallel evaluation: subject -> that iteration's own locals

vars == <<data, win_size, pc, error, nsubjs, ndim, nsample, nseg, accuracy,
          trn_data, m, tst_subj, tst_data, template, A, B, corr_mtx, max_idx,
          printed, summary, writes, reads, wpc, wloc>>

\* the sequential loop of lines 198-219 has no workers
parvars == <<wpc, wloc>>

(***************************************************************************)
(* Bounds of the checked inputs.                                            *)
(***************************************************************************)
MaxSubj == 2
MaxDim == 2
MaxT == 5
MaxVal == 1

(***************************************************************************)
(* Integer and matrix helpers.                                              *)
(***************************************************************************)
Abs(x) == IF x < 0 THEN -x ELSE x

Min(a, b) == IF a < b THEN a ELSE b

Max(a, b) == IF a < b THEN b ELSE a

Sign(x) == IF x < 0 THEN -1 ELSE IF x = 0 THEN 0 ELSE 1

RECURSIVE SumTo(_, _)
\* f[0] + ... + f[n-1]
SumTo(f, n) == IF n <= 0 THEN 0 ELSE f[n - 1] + SumTo(f, n - 1)

\* an array held in memory: the comparison makes TLC evaluate the function
\* expression once instead of at every use
Stored(f) == IF f = f THEN f ELSE f

\* np.zeros((R, C))
Zeros(R, C) == [r \in 0..(R - 1) |-> [c \in 0..(C - 1) |-> 0]]

\* X.shape of an input matrix (at least one row)
ShapeRows(X) == Cardinality(DOMAIN X)

ShapeCols(X) == Cardinality(DOMAIN X[0])

\* trn_data - tst_data, elementwise (line 203)
MatSub(X, Y) == [r \in DOMAIN X |-> [c \in DOMAIN X[r] |-> X[r][c] - Y[r][c]]]


(***************************************************************************)
(* Window slices and blocks (lines 187, 195 and 201).                       *)
(***************************************************************************)
\* mutant of NumSegments: every window that fits, T - win_size + 1
NumSegmentsInclusive(T, win) == T - win + 1

\* nseg = nsample - win_size
NumSegments(T, win) == T - win

\* first row of block w in trn_data[w*ndim:(w+1)*ndim, :]
RowLo(w, nd) == w * nd

\* one past the last row of block w
RowHi(w, nd) == (w + 1) * nd

\* mutant of SliceStart: the slice w+1:(w+nseg)
SliceStartNext(w) == w + 1

\* inclusive start of the column slice w:(w+nseg)
SliceStart(w) == w

\* exclusive stop of the column slice w:(w+nseg)
SliceStop(w, ns) == w + ns

\* numpy clips a slice to the axis: number of columns of X[:, w:(w+ns)]
SliceLen(X, w, ns) ==
  Max(0, Min(SliceStop(w, ns), ShapeCols(X)) - Min(SliceStart(w), ShapeCols(X)))

\* numpy's in-place broadcasting rule for a source of shape
\* (rows of X, SliceLen) against the target block of shape (nd, ns)
Broadcasts(X, w, nd, ns) ==
  /\ ShapeRows(X) \in {nd, 1}
  /\ SliceLen(X, w, ns) \in {ns, 1}

\* X[:, w:(w+ns)] broadcast to the target block's shape (nd, ns)
Window(X, w, nd, ns) ==
  [d \in 0..(nd - 1) |->
    [j \in 0..(ns - 1) |->
      X[IF ShapeRows(X) = 1 THEN 0 ELSE d]
       [Min(SliceStart(w), ShapeCols(X))
          + (IF SliceLen(X, w, ns) = 1 THEN 0 ELSE j)]]]

\* mutant of AddBlock: = in place of +=
AddBlockAssign(M, w, nd, Blk) ==
  [r \in DOMAIN M |->
    IF w * nd <= r /\ r < (w + 1) * nd
      THEN [c \in DOMAIN M[r] |-> Blk[r - w * nd][c]]
      ELSE M[r]]

\* M[w*nd:(w+1)*nd, :] += Blk
AddBlock(M, w, nd, Blk) ==
  [r \in DOMAIN M |->
    IF RowLo(w, nd) <= r /\ r < RowHi(w, nd)
      THEN [c \in DOMAIN M[r] |-> M[r][c] + Blk[r - RowLo(w, nd)][c]]
      ELSE M[r]]

\* M[w*nd:(w+1)*nd, :] = Blk
SetBlock(M, w, nd, Blk) ==
  [r \in DOMAIN M |->
    IF RowLo(w, nd) <= r /\ r < RowHi(w, nd)
      THEN [c \in DOMAIN M[r] |-> Blk[r - RowLo(w, nd)][c]]
      ELSE M[r]]

RECURSIVE AccumulateWindows(_, _, _, _, _, _)
\* the loop of lines 194-195 from window w on; ok is FALSE when a slice
\* does not broadcast (ValueError), mat is the matrix as the loop left it
AccumulateWindows(M, X, w, nd, ns, win) ==
  IF w >= win THEN [mat |-> M, ok |-> TRUE]
  ELSE IF ~Broadcasts(X, w, nd, ns) THEN [mat |-> M, ok |-> FALSE]
  ELSE AccumulateWindows(Stored(AddBlock(M, w, nd, Window(X, w, nd, ns))),
                         X, w + 1, nd, ns, win)

RECURSIVE BuildSegments(_, _, _, _, _, _)
\* the loop of lines 200-201 from window w on
BuildSegments(M, X, w, nd, ns, win) ==
  IF w >= win THEN [mat |-> M, ok |-> TRUE]
  ELSE IF ~Broadcasts(X, w, nd, ns) THEN [mat |-> M, ok |-> FALSE]
  ELSE BuildSegments(Stored(SetBlock(M, w, nd, Window(X, w, nd, ns))),
                     X, w + 1, nd, ns, win)

\* the time indices the slices w:(w+ns), w in range(win), ask for
RequestedCols(ns, win) ==
  UNION {SliceStart(w)..(SliceStop(w, ns) - 1) : w \in 0..(win - 1)}

(***************************************************************************)
(* Normalisation (lines 203-204): nan_to_num(zscore(M, axis=0, ddof=1)).    *)
(* Column x of F values has mean sum(x)/F and sample variance               *)
(* sum((x-mean)^2)/(F-1).  With c[i] = F*x[i] - sum(x) and ss = sum(c^2),   *)
(* the z-score is z[i] = c[i] * sqrt((F-1)/ss).  When F = 1 or ss = 0 the   *)
(* quotient is 0/0 = nan in every entry, which nan_to_num replaces by 0.    *)
(* A normalised column is the record [dir, k, ss]: its entries are          *)
(* dir[i] * sqrt(k/ss), and all 0 when ss = 0.                              *)
(***************************************************************************)
Column(M, c, F) == [i \in 0..(F - 1) |-> M[i][c]]

Centered(x, F) ==
  LET total == SumTo(x, F)
  IN  [i \in 0..(F - 1) |-> F * x[i] - total]

SumSq(x, F) == SumTo([i \in 0..(F - 1) |-> x[i] * x[i]], F)

ZScoreColumn(x, F) ==
  LET c == Centered(x, F)
      ss == SumSq(c, F)
  IN  IF F - 1 = 0 \/ ss = 0
        THEN [dir |-> [i \in 0..(F - 1) |-> 0], k |-> 0, ss |-> 0]
        ELSE [dir |-> c, k |-> F - 1, ss |-> ss]

\* column c |-> normalised column of M (F rows, ns columns)
ZScoreNan(M, F, ns) ==
  Stored([c \in 0..(ns - 1) |-> ZScoreColumn(Column(M, c, F), F)])

(***************************************************************************)
(* compute_correlation(B.T, A.T) (line 207, brainiak.fcma.util): entry      *)
(* (p, q) is the Pearson correlation of column p of B and column q of A,    *)
(* 0 when either has zero variance.  The positive scale sqrt(k/ss) of a     *)
(* normalised column cancels in the quotient.  A correlation r is kept as   *)
(* <<n, d>> with n/d = sign(r)*r^2 and d > 0; -inf is <<-1, 0>>.            *)
(***************************************************************************)
CorrZero == <<0, 1>>

CorrOne == <<1, 1>>

NegInf == <<-1, 0>>

Dot(x, y, F) == SumTo([i \in 0..(F - 1) |-> x[i] * y[i]], F)

\* x - mean(x); the mean of a normalised column is exactly 0, so the
\* integer quotient is exact
Demean(x, F) ==
  LET mean == SumTo(x, F) \div F
  IN  [i \in 0..(F - 1) |-> x[i] - mean]

Pearson(u, v, F) ==
  LET x == Demean(u.dir, F)
      y == Demean(v.dir, F)
      sxy == Dot(x, y, F)
      sxx == Dot(x, x, F)
      syy == Dot(y, y, F)
  IN  IF u.ss = 0 \/ v.ss = 0 \/ sxx = 0 \/ syy = 0 THEN CorrZero
      ELSE <<Sign(sxy) * sxy * sxy, sxx * syy>>

compute_correlation(Bn, An, F, ns) ==
  [p \in 0..(ns - 1) |-> [q \in 0..(ns - 1) |-> Pearson(Bn[p], An[q], F)]]

RECURSIVE CmpFrac(_, _, _, _)
\* -1, 0, 1 as a/b is below, equal to, above c/d (a, c >= 0 and b, d > 0),
\* by continued fractions: no product, so no overflow
CmpFrac(a, b, c, d) ==
  LET q1 == a \div b
      q2 == c \div d
      r1 == a % b
      r2 == c % d
  IN  IF q1 # q2 THEN (IF q1 < q2 THEN -1 ELSE 1)
      ELSE IF r1 = 0 /\ r2 = 0 THEN 0
      ELSE IF r1 = 0 THEN -1
      ELSE IF r2 = 0 THEN 1
      ELSE CmpFrac(d, r2, b, r1)

\* x < y as floating-point values
CorrLess(x, y) ==
  IF y = NegInf THEN FALSE
  ELSE IF x = NegInf THEN TRUE
  ELSE IF Sign(x[1]) # Sign(y[1]) THEN Sign(x[1]) < Sign(y[1])
  ELSE IF x[1] >= 0 THEN CmpFrac(x[1], x[2], y[1], y[2]) = -1
  ELSE CmpFrac(-x[1], x[2], -y[1], y[2]) = 1

(***************************************************************************)
(* The correlation classifier (lines 210-216).                              *)
(***************************************************************************)
\* mutant of Overlaps: <= in place of <
OverlapsInclusive(i, j, win) == Abs(i - j) <= win /\ i # j

\* mutant of Overlaps: the test i != j dropped
OverlapsOrSame(i, j, win) == Abs(i - j) < win

\* the condition of line 213
Overlaps(i, j, win) == Abs(i - j) < win /\ i # j

\* the double loop of lines 210-214
MaskOverlaps(C, ns, win) ==
  [i \in 0..(ns - 1) |->
    [j \in 0..(ns - 1) |-> IF Overlaps(i, j, win) THEN NegInf ELSE C[i][j]]]

\* mutant of Better: a later entry wins when greater or equal
BetterOrEqual(x, best) == ~CorrLess(x, best)

\* np.argmax keeps the first maximum: a later entry wins only when greater
Better(x, best) == CorrLess(best, x)

RECURSIVE ArgMaxFrom(_, _, _, _)
\* scan of row[j..n-1] with row[best] the maximum so far
ArgMaxFrom(row, n, j, best) ==
  IF j >= n THEN best
  ELSE ArgMaxFrom(row, n, j + 1, IF Better(row[j], row[best]) THEN j ELSE best)

\* np.argmax(corr_mtx, axis=1) for one row of n >= 1 entries
ArgMax(row, n) == ArgMaxFrom(row, n, 1, 0)

\* sum(max_idx == range(nseg))
Hits(idx, ns) == Cardinality({p \in 0..(ns - 1) : idx[p] = p})

\* sum(max_idx == range(nseg)) / nseg, as a rational
AccuracyOf(idx, ns) == [num |-> Hits(idx, ns), den |-> ns]

\* lines 210-216 on the matrix the primitive returned
Classify(mtx, ns, win) ==
  LET masked == MaskOverlaps(mtx, ns, win)
      idx == [p \in 0..(ns - 1) |-> ArgMax(masked[p], ns)]
  IN  [corr |-> masked, idx |-> idx, acc |-> AccuracyOf(idx, ns)]

\* "%0.4f" of num/den: the nearest multiple of 1/10000
Round4(x) == (2 * 10000 * x.num + x.den) \div (2 * x.den)

\* mutant of TrnAfterIteration: trn_data -= tst_data in place
TrnSubtractedInPlace(trn, tst) == MatSub(trn, tst)

\* trn_data after one leave-one-out iteration: line 203 subtracts into a
\* temporary and assigns nothing to trn_data
TrnAfterIteration(trn, tst) == trn

\* mutant of Summarise: the sum of the accuracies in place of their mean
SummariseSum(acc, n, ns) ==
  LET k == [i \in 0..(n - 1) |-> acc[i].num]
      s == SumTo([i \in 0..(n - 1) |-> acc[i].num], n)
  IN  [mean |-> [num |-> s, den |-> ns],
       var |-> [num |-> n * SumTo([i \in 0..(n - 1) |-> k[i] * k[i]], n) - s * s,
                den |-> n * n * ns * ns]]

\* np.mean(accuracy) and np.std(accuracy)^2 over n subjects whose accuracies
\* share the denominator ns
Summarise(acc, n, ns) ==
  LET k == [i \in 0..(n - 1) |-> acc[i].num]
      s == SumTo(k, n)
  IN  [mean |-> [num |-> s, den |-> n * ns],
       var |-> [num |-> n * SumSq(k, n) - s * s, den |-> n * n * ns * ns]]

(***************************************************************************)
(* What the correlation primitive leaves in corr_mtx.  With F >= 1 features *)
(* it is the correlation matrix.  With F = 0 (win_size = 0) the library's   *)
(* matrix product has inner dimension 0 and its output buffer is allocated  *)
(* uninitialised: the call may raise, or return whatever the buffer holds.  *)
(***************************************************************************)
Uninitialised(ns) ==
  { [p \in 0..(ns - 1) |-> [q \in 0..(ns - 1) |-> CorrZero]],
    [p \in 0..(ns - 1) |-> [q \in 0..(ns - 1) |->
        IF p = q THEN CorrOne ELSE CorrZero]],
    [p \in 0..(ns - 1) |-> [q \in 0..(ns - 1) |->
        IF q = ns - 1 THEN CorrOne ELSE CorrZero]] }

CorrOutcomes(Bn, An, F, ns) ==
  IF F = 0 /\ ns > 0
    THEN {[raised |-> TRUE, mtx |-> <<>>]}
           \cup {[raised |-> FALSE, mtx |-> g] : g \in Uninitialised(ns)}
    ELSE {[raised |-> FALSE, mtx |-> compute_correlation(Bn, An, F, ns)]}

(***************************************************************************)
(* The inputs of the checked calls.  A subject's matrix is drawn from a     *)
(* family of signals indexed by a seed, with values in 0..MaxVal: the first *)
(* row of seed 0 is constant and that of seed 1 cycles through the values,  *)
(* the other seeds and rows add aperiodic terms.                            *)
(***************************************************************************)
Seeds == 0..(MaxVal + 1)

Tri(t) == (t * (t + 1)) \div 2

Signal(s, d, t) ==
  (s * t + (s \div 2) * Tri(t) + d * Tri(t + s)) % (MaxVal + 1)

SignalMatrix(s, D, T) ==
  [d \in 0..(D - 1) |-> [t \in 0..(T - 1) |-> Signal(s, d, t)]]

WinSizes == (-1)..MaxT

\* subjects of one common shape
InitCommonShape ==
  \E N \in 1..MaxSubj, D \in 1..MaxDim, T \in 1..MaxT :
    \E seed \in [0..(N - 1) -> Seeds] :
      data = [i \in 0..(N - 1) |-> SignalMatrix(seed[i], D, T)]

\* two subjects, the second one row or one timepoint larger or smaller
InitOtherShape ==
  \E D \in 1..MaxDim, T \in 1..MaxT, s0 \in Seeds, s1 \in Seeds :
    \E sh \in {<<D, T + 1>>, <<D, T - 1>>, <<D + 1, T>>, <<D - 1, T>>} :
      /\ sh[1] >= 1 /\ sh[2] >= 1
      /\ data = [i \in 0..1 |-> IF i = 0 THEN SignalMatrix(s0, D, T)
                                        ELSE SignalMatrix(s1, sh[1], sh[2])]

\* two subjects with the same noiseless ramp
RampSeries == [t \in 0..5 |-> t]

RampInput == [i \in 0..1 |-> [d \in 0..0 |-> RampSeries]]

InitRamp == data = RampInput

Init ==
  /\ \/ InitCommonShape /\ win_size \in WinSizes
     \/ InitOtherShape /\ win_size \in WinSizes
     \/ InitRamp /\ win_size = 1
  /\ pc = "start"
  /\ error = "none"
  /\ nsubjs = 0 /\ ndim = 0 /\ nsample = 0 /\ nseg = 0
  /\ accuracy = <<>>
  /\ trn_data = <<>>
  /\ m = 0
  /\ tst_subj = 0
  /\ tst_data = <<>> /\ template = <<>> /\ A = <<>> /\ B = <<>> /\ corr_mtx = <<>> /\ max_idx = <<>>
  /\ printed = <<>>
  /\ summary = <<>>
  /\ writes = <<>>
  /\ reads = {}
  /\ wpc = <<>>
  /\ wloc = <<>>

(***************************************************************************)
(* Lines 184-190: the locals and the allocation of trn_data.  np.zeros      *)
(* raises ValueError on a negative dimension.                               *)
(***************************************************************************)
Enter ==
  /\ pc = "start"
  /\ nsubjs' = Cardinality(DOMAIN data)
  /\ ndim' = ShapeRows(data[0])
  /\ nsample' = ShapeCols(data[0])
  /\ accuracy' = [i \in 0..(nsubjs' - 1) |-> [num |-> 0, den |-> 1]]
  /\ writes' = [i \in 0..(nsubjs' - 1) |-> 0]
  /\ nseg' = NumSegments(nsample', win_size)
  /\ IF ndim' * win_size < 0 \/ nseg' < 0
       THEN /\ pc' = "raised"
            /\ error' = "ValueError: negative dimensions"
            /\ trn_data' = trn_data
       ELSE /\ pc' = "accumulate"
            /\ error' = error
            /\ trn_data' = Zeros(ndim' * win_size, nseg')
  /\ UNCHANGED <<data, win_size, m, tst_subj, tst_data, template, A, B,
                 corr_mtx, max_idx, printed, summary, reads, parvars>>

(***************************************************************************)
(* Lines 193-195: one pass of the subject loop, all its windows.            *)
(***************************************************************************)
Accumulate ==
  /\ pc = "accumulate"
  /\ m < nsubjs
  /\ LET r == AccumulateWindows(trn_data, data[m], 0, ndim, nseg, win_size)
     IN  /\ trn_data' = r.mat
         /\ IF r.ok
              THEN /\ m' = m + 1
                   /\ pc' = IF m + 1 = nsubjs THEN "analyze" ELSE "accumulate"
                   /\ error' = error
              ELSE /\ m' = m
                   /\ pc' = "raised"
                   /\ error' = "ValueError: broadcast"
  /\ UNCHANGED <<data, win_size, nsubjs, ndim, nsample, nseg, accuracy,
                 tst_subj, tst_data, template, A, B, corr_mtx, max_idx,
                 printed, summary, writes, reads, parvars>>

(***************************************************************************)
(* Lines 198-219: one leave-one-out iteration.                              *)
(***************************************************************************)
Analyze ==
  /\ pc = "analyze"
  /\ tst_subj < nsubjs
  /\ LET F == ndim * win_size
         built == BuildSegments(Zeros(F, nseg), data[tst_subj], 0, ndim, nseg,
                                win_size)
         diff == MatSub(trn_data, built.mat)
         An == ZScoreNan(diff, F, nseg)
         Bn == ZScoreNan(built.mat, F, nseg)
     IN  /\ tst_data' = built.mat
         /\ reads' = RequestedCols(nseg, win_size)
         /\ IF ~built.ok
              THEN /\ pc' = "raised"
                   /\ error' = "ValueError: broadcast"
                   /\ UNCHANGED <<template, A, B, corr_mtx, max_idx, accuracy,
                                  writes, printed, trn_data, tst_subj>>
              ELSE
                /\ template' = diff
                /\ A' = An
                /\ B' = Bn
                /\ trn_data' = TrnAfterIteration(trn_data, built.mat)
                /\ \E out \in CorrOutcomes(Bn, An, F, nseg) :
                     IF out.raised
                       THEN /\ pc' = "raised"
                            /\ error' = "library error"
                            /\ UNCHANGED <<corr_mtx, max_idx, accuracy,
                                           writes, printed, tst_subj>>
                     ELSE IF nseg = 0
                       THEN \* np.argmax over an axis of length 0
                            /\ corr_mtx' = MaskOverlaps(out.mtx, nseg, win_size)
                            /\ pc' = "raised"
                            /\ error' = "ValueError: argmax of an empty sequence"
                            /\ UNCHANGED <<max_idx, accuracy, writes, printed,
                                           tst_subj>>
                     ELSE
                       LET res == Classify(out.mtx, nseg, win_size)
                       IN  /\ corr_mtx' = res.corr
                           /\ max_idx' = res.idx
                           /\ accuracy' = [accuracy EXCEPT ![tst_subj] = res.acc]
                           /\ writes' = [writes EXCEPT ![tst_subj] = @ + 1]
                           /\ printed' =
                                Append(printed, <<tst_subj, Round4(res.acc)>>)
                           /\ tst_subj' = tst_subj + 1
                           /\ pc' = pc
                           /\ error' = error
  /\ UNCHANGED <<data, win_size, nsubjs, ndim, nsample, nseg, m, summary,
                 parvars>>

(***************************************************************************)
(* Lines 221-222: the final report and the return.                          *)
(***************************************************************************)
Finish ==
  /\ pc = "analyze"
  /\ tst_subj = nsubjs
  /\ summary' = Summarise(accuracy, nsubjs, nseg)
  /\ pc' = "done"
  /\ UNCHANGED <<data, win_size, error, nsubjs, ndim, nsample, nseg, accuracy,
                 trn_data, m, tst_subj, tst_data, template, A, B, corr_mtx,
                 max_idx, printed, writes, reads, parvars>>

Next == Enter \/ Accumulate \/ Analyze \/ Finish

Spec == Init /\ [][Next]_vars

(***************************************************************************)
(* The leave-one-out iterations run as independent workers, one per         *)
(* subject, once the group sum is complete.  Each worker runs the body of   *)
(* the loop of lines 198-219 on locals of its own, in two steps: the        *)
(* segments, template and normalisation (lines 199-204), then the           *)
(* correlation and classification (lines 207-219).                          *)
(***************************************************************************)
seqvars == <<tst_subj, tst_data, template, A, B, corr_mtx, max_idx>>

ParFork ==
  /\ pc = "analyze"
  /\ pc' = "parallel"
  /\ wpc' = [i \in 0..(nsubjs - 1) |-> "idle"]
  /\ wloc' = [i \in 0..(nsubjs - 1) |-> <<>>]
  /\ UNCHANGED <<data, win_size, error, nsubjs, ndim, nsample, nseg, accuracy,
                 trn_data, m, printed, summary, writes, reads, seqvars>>

ParBuild(i) ==
  /\ pc = "parallel"
  /\ wpc[i] = "idle"
  /\ LET F == ndim * win_size
         built == BuildSegments(Zeros(F, nseg), data[i], 0, ndim, nseg, win_size)
         diff == MatSub(trn_data, built.mat)
     IN  IF ~built.ok
           THEN /\ pc' = "raised"
                /\ error' = "ValueError: broadcast"
                /\ UNCHANGED <<wpc, wloc, trn_data>>
           ELSE /\ wloc' = [wloc EXCEPT ![i] =
                              [tst_data |-> built.mat, template |-> diff,
                               A |-> ZScoreNan(diff, F, nseg),
                               B |-> ZScoreNan(built.mat, F, nseg),
                               corr_mtx |-> <<>>, max_idx |-> <<>>]]
                /\ trn_data' = TrnAfterIteration(trn_data, built.mat)
                /\ wpc' = [wpc EXCEPT ![i] = "built"]
                /\ UNCHANGED <<pc, error>>
  /\ UNCHANGED <<data, win_size, nsubjs, ndim, nsample, nseg, accuracy, m,
                 printed, summary, writes, reads, seqvars>>

ParClassify(i) ==
  /\ pc = "parallel"
  /\ wpc[i] = "built"
  /\ \E out \in CorrOutcomes(wloc[i].B, wloc[i].A, ndim * win_size, nseg) :
       IF out.raised \/ nseg = 0
         THEN /\ pc' = "raised"
              /\ error' = IF out.raised THEN "library error"
                          ELSE "ValueError: argmax of an empty sequence"
              /\ UNCHANGED <<wpc, wloc, accuracy, writes, printed>>
         ELSE LET res == Classify(out.mtx, nseg, win_size)
              IN  /\ wloc' = [wloc EXCEPT ![i].corr_mtx = res.corr,
                                          ![i].max_idx = res.idx]
                  /\ accuracy' = [accuracy EXCEPT ![i] = res.acc]
                  /\ writes' = [writes EXCEPT ![i] = @ + 1]
                  /\ printed' = Append(printed, <<i, Round4(res.acc)>>)
                  /\ wpc' = [wpc EXCEPT ![i] = "done"]
                  /\ UNCHANGED <<pc, error>>
  /\ UNCHANGED <<data, win_size, nsubjs, ndim, nsample, nseg, trn_data, m,
                 summary, reads, seqvars>>

ParJoin ==
  /\ pc = "parallel"
  /\ \A i \in DOMAIN wpc : wpc[i] = "done"
  /\ summary' = Summarise(accuracy, nsubjs, nseg)
  /\ pc' = "done"
  /\ UNCHANGED <<data, win_size, error, nsubjs, ndim, nsample, nseg, accuracy,
                 trn_data, m, printed, writes, reads, wpc, wloc, seqvars>>

ParNext ==
  \/ Enter
  \/ Accumulate
  \/ ParFork
  \/ \E i \in DOMAIN wpc : ParBuild(i)
  \/ \E i \in DOMAIN wpc : ParClassify(i)
  \/ ParJoin

\* the calls the specification accepts: one shape, 0 < win_size < T
InitPar ==
  /\ Init
  /\ \A i \in DOMAIN data :
       /\ ShapeRows(data[i]) = ShapeRows(data[0])
       /\ ShapeCols(data[i]) = ShapeCols(data[0])
  /\ 0 < win_size /\ win_size < ShapeCols(data[0])

SpecPar == InitPar /\ [][ParNext]_vars

(***************************************************************************)
(* The accuracy vector of the sequential loops, as a function of the        *)
(* arguments: lines 193-195, then lines 198-216 for subjects 0, 1, ...      *)
(***************************************************************************)
RECURSIVE SeqAccumulate(_, _)
SeqAccumulate(trn, k) ==
  IF k >= nsubjs THEN trn
  ELSE SeqAccumulate(
         AccumulateWindows(trn, data[k], 0, ndim, nseg, win_size).mat, k + 1)

RECURSIVE SeqAnalyze(_, _, _)
SeqAnalyze(trn, i, acc) ==
  IF i >= nsubjs THEN acc
  ELSE LET F == ndim * win_size
           tst == BuildSegments(Zeros(F, nseg), data[i], 0, ndim, nseg,
                                win_size).mat
           An == ZScoreNan(Stored(MatSub(trn, tst)), F, nseg)
           Bn == ZScoreNan(tst, F, nseg)
           res == Classify(compute_correlation(Bn, An, F, nseg), nseg, win_size)
       IN  SeqAnalyze(TrnAfterIteration(trn, tst), i + 1,
                      [acc EXCEPT ![i] = res.acc])

SeqAccuracy ==
  SeqAnalyze(SeqAccumulate(Zeros(ndim * win_size, nseg), 0), 0,
             [i \in 0..(nsubjs - 1) |-> [num |-> 0, den |-> 1]])

(***************************************************************************)
(* Vocabulary of the properties.                                            *)
(***************************************************************************)
Subjects == DOMAIN data

SameShape ==
  \A i \in Subjects :
    /\ ShapeRows(data[i]) = ShapeRows(data[0])
    /\ ShapeCols(data[i]) = ShapeCols(data[0])

ValidWindow == 0 < win_size /\ win_size < ShapeCols(data[0])

ValidInput == SameShape /\ ValidWindow

\* at least one leave-one-out iteration has completed; Last is its subject
Analysed == pc \in {"analyze", "done"} /\ tst_subj >= 1

Last == tst_subj - 1

Segs == 0..(nseg - 1)

\* the segment matrix of the specification: entry (w*D + d, j) is the
\* value of feature d at timepoint w + j
SegmentEntry(X, r, c) == X[r % ShapeRows(X)][(r \div ShapeRows(X)) + c]

\* sum over the subjects in S of their segment matrices' entries (r, c)
RECURSIVE SumEntries(_, _, _)
SumEntries(S, r, c) ==
  IF S = {} THEN 0
  ELSE LET k == CHOOSE k \in S : TRUE
       IN  SegmentEntry(data[k], r, c) + SumEntries(S \ {k}, r, c)

\* a/b <= c/d for rationals with positive denominators
RatLeq(x, y) == x.num * y.den <= y.num * x.den

(***************************************************************************)
(* C1: after the exclusion-mask loop of an iteration, corr_mtx[p][q] is     *)
(* -inf exactly when |p-q| < win_size and p # q; the diagonal and every     *)
(* entry with |p-q| >= win_size hold the value the correlation primitive    *)
(* returned for the iteration's normalised B and A.                         *)
(***************************************************************************)
C1_MaskExact ==
  (Analysed /\ win_size >= 1) =>
    \A p \in Segs, q \in Segs :
      /\ (corr_mtx[p][q] = NegInf) <=> (Abs(p - q) < win_size /\ p # q)
      /\ (p = q \/ Abs(p - q) >= win_size) =>
           corr_mtx[p][q] = compute_correlation(B, A, ndim * win_size, nseg)[p][q]

\* an iteration whose matrix has masked and unmasked off-diagonal entries
C1_Witness ==
  /\ Analysed /\ ValidInput /\ win_size >= 2
  /\ \E p \in Segs, q \in Segs : p # q /\ corr_mtx[p][q] = NegInf
  /\ \E p \in Segs, q \in Segs :
       p # q /\ corr_mtx[p][q] # NegInf /\ corr_mtx[p][q] # CorrZero

(***************************************************************************)
(* C5: the group sum is the sum of all subjects' segment matrices, it is    *)
(* complete before the first leave-one-out iteration and no iteration       *)
(* changes it; the template of iteration i is the sum over all k # i.       *)
(***************************************************************************)
C5_LeaveOneOutTemplate ==
  ValidInput =>
    /\ pc \in {"analyze", "done"} =>
         /\ m = nsubjs
         /\ \A r \in DOMAIN trn_data : \A c \in Segs :
              trn_data[r][c] = SumEntries(Subjects, r, c)
    /\ Analysed =>
         \A r \in DOMAIN template : \A c \in Segs :
           /\ template[r][c] = trn_data[r][c] - SegmentEntry(data[Last], r, c)
           /\ template[r][c] = SumEntries(Subjects \ {Last}, r, c)

\* the second iteration of a run of two subjects with a nonzero template
C5_Witness ==
  /\ ValidInput /\ Analysed /\ tst_subj = 2
  /\ DOMAIN template = 0..(ndim * win_size - 1)
  /\ \E r \in DOMAIN template : \E c \in Segs :
       template[r][c] # 0 /\ template[r][c] # trn_data[r][c]

(***************************************************************************)
(* C6: the segment matrix of a subject has shape (D*win_size, T-win_size),  *)
(* its entry (w*D + d, j) is TimeSeries[d][w + j], and no timepoint         *)
(* outside 0..T-1 is asked for.                                             *)
(***************************************************************************)
C6_SegmentLayout ==
  (ValidInput /\ Analysed) =>
    /\ DOMAIN tst_data = 0..(ShapeRows(data[Last]) * win_size - 1)
    /\ \A r \in DOMAIN tst_data :
         DOMAIN tst_data[r] = 0..(ShapeCols(data[Last]) - win_size - 1)
    /\ \A w \in 0..(win_size - 1), d \in 0..(ndim - 1), j \in Segs :
         tst_data[w * ndim + d][j] = data[Last][d][w + j]
    /\ reads \subseteq 0..(ShapeCols(data[Last]) - 1)

\* a segment matrix of two features and two window offsets whose rows differ
C6_Witness ==
  /\ ValidInput /\ Analysed /\ ndim = 2 /\ win_size = 2 /\ nseg >= 2
  /\ tst_data[0] # tst_data[1] /\ tst_data[1] # tst_data[2]
  /\ tst_data[0] # tst_data[2]

(***************************************************************************)
(* C7: every accuracy is k/nseg with 0 <= k <= nseg, each subject's entry   *)
(* is written exactly once by the time the vector is returned, and the      *)
(* mean lies between the least and the greatest accuracy.                   *)
(***************************************************************************)
C7_AccuracyRange ==
  (ValidInput /\ pc # "start") =>
    /\ DOMAIN accuracy = 0..(Cardinality(Subjects) - 1)
    /\ \A i \in DOMAIN accuracy :
         /\ 0 <= accuracy[i].num /\ accuracy[i].num <= accuracy[i].den
         /\ writes[i] = (IF i < tst_subj THEN 1 ELSE 0)
         /\ i < tst_subj => accuracy[i].den = nseg
    /\ pc = "done" =>
         /\ tst_subj = nsubjs
         /\ \E i \in DOMAIN accuracy : RatLeq(accuracy[i], summary.mean)
         /\ \E i \in DOMAIN accuracy : RatLeq(summary.mean, accuracy[i])

\* a returned vector whose entries differ, none of them 0 or 1
C7_Witness ==
  /\ ValidInput /\ pc = "done" /\ nsubjs >= 2
  /\ \E i \in DOMAIN accuracy : 0 < accuracy[i].num /\ accuracy[i].num < nseg
  /\ \E i \in DOMAIN accuracy, j \in DOMAIN accuracy : accuracy[i] # accuracy[j]

(***************************************************************************)
(* C9: the predicted index of row p is the lowest index attaining the       *)
(* row's maximum, it is never a masked entry, and the accuracy is the       *)
(* number of rows predicted as themselves over nseg.                        *)
(***************************************************************************)
C9_LowestArgmax ==
  (Analysed /\ win_size >= 1) =>
    /\ \A p \in Segs :
         LET q == max_idx[p]
         IN  /\ q \in Segs
             /\ \A k \in Segs : ~CorrLess(corr_mtx[p][q], corr_mtx[p][k])
             /\ \A k \in 0..(q - 1) : CorrLess(corr_mtx[p][k], corr_mtx[p][q])
             /\ corr_mtx[p][q] # NegInf
             /\ q = p \/ Abs(p - q) >= win_size
    /\ accuracy[Last].num = Cardinality({p \in Segs : max_idx[p] = p})
    /\ accuracy[Last].den = nseg

\* a row whose maximum is attained at several indices, the first predicted,
\* and a row whose unmasked entries are all 0
C9_Witness ==
  /\ Analysed /\ ValidInput
  /\ \E p \in Segs : \E k \in Segs :
       /\ k > max_idx[p]
       /\ ~CorrLess(corr_mtx[p][k], corr_mtx[p][max_idx[p]])
       /\ corr_mtx[p][max_idx[p]] # CorrZero
  /\ \E p \in Segs : \A k \in Segs : corr_mtx[p][k] \in {CorrZero, NegInf}

(***************************************************************************)
(* C10: when 0 < nseg <= win_size every off-diagonal entry is masked, every *)
(* segment is classified as itself and every returned accuracy is 1.        *)
(***************************************************************************)
C10_ShortSeriesPerfect ==
  (ValidInput /\ nseg <= win_size) =>
    /\ Analysed =>
         /\ \A p \in Segs, q \in Segs : p # q => corr_mtx[p][q] = NegInf
         /\ \A p \in Segs : max_idx[p] = p
    /\ pc = "done" =>
         \A i \in DOMAIN accuracy : accuracy[i] = [num |-> nseg, den |-> nseg]

\* a returned vector of several subjects and several segments whose
\* diagonal correlations are not all the same
C10_Witness ==
  /\ ValidInput /\ pc = "done" /\ nsubjs >= 2 /\ nseg >= 2 /\ nseg <= win_size
  /\ \E p \in Segs, q \in Segs : CorrLess(corr_mtx[p][p], corr_mtx[q][q])

(***************************************************************************)
(* C2 as amended: with D = 1, T = 6, win_size = 1 and two subjects holding  *)
(* the series 0..5, nseg is 5 and each iteration's template is the other    *)
(* subject's segment matrix; a column of F = 1 feature normalises to 0, so  *)
(* every correlation is 0, every segment is classified as index 0 and both  *)
(* returned accuracies are 1/5.                                             *)
(***************************************************************************)
Ramp == data = RampInput /\ win_size = 1

C2_RampAccuracy ==
  Ramp =>
    /\ pc # "raised"
    /\ pc # "start" => nseg = 5
    /\ Analysed =>
         /\ DOMAIN template = 0..0
         /\ DOMAIN template[0] = 0..4
         /\ \A c \in 0..4 : template[0][c] = SegmentEntry(data[1 - Last], 0, c)
         /\ \A p \in 0..4 : max_idx[p] = 0
    /\ pc = "done" =>
         \A i \in 0..1 : accuracy[i] = [num |-> 1, den |-> 5]

C2_Witness == Ramp /\ pc = "done" /\ B # <<>> /\ \A p \in 0..4 : B[p].ss = 0

\* C2 as stated: each segment p is classified as index p and both
\* accuracies are 1
C2_RampPerfect ==
  Ramp =>
    /\ pc # "raised"
    /\ pc # "start" => nseg = 5
    /\ Analysed =>
         /\ \A c \in 0..4 : template[0][c] = SegmentEntry(data[1 - Last], 0, c)
         /\ \A p \in 0..4 : max_idx[p] = p
    /\ pc = "done" =>
         \A i \in 0..1 : accuracy[i] = [num |-> 5, den |-> 5]

(***************************************************************************)
(* C3: with win_size >= T or win_size <= 0 the call ends by raising before  *)
(* any computation: no subject was accumulated, no accuracy was computed    *)
(* or printed, and nothing is returned.                                     *)
(***************************************************************************)
WindowTooLong == win_size >= ShapeCols(data[0])

\* the claim for win_size >= T, at the end of the call
C3_WindowFailFast ==
  (WindowTooLong /\ pc \in {"raised", "done"}) =>
    /\ pc = "raised"
    /\ m = 0
    /\ tst_data = <<>>
    /\ printed = <<>>

(***************************************************************************)
(* C4: when the subjects do not all have subject 0's shape, the call never  *)
(* returns accuracies (stated for a window that is valid for subject 0).    *)
(***************************************************************************)
C4_NoResultOnMismatch == (~SameShape /\ ValidWindow) => pc # "done"

(***************************************************************************)
(* C8: with the group sum complete before any iteration starts, the         *)
(* iterations run in any order and interleaving write, each to its own      *)
(* slot only, the accuracies of the sequential loop.                        *)
(***************************************************************************)
C8_OrderIndependent ==
  pc \in {"parallel", "done"} =>
    LET seq == SeqAccuracy
    IN  /\ m = nsubjs
        /\ \A i \in DOMAIN wpc :
             IF wpc[i] = "done"
               THEN accuracy[i] = seq[i] /\ writes[i] = 1
               ELSE accuracy[i] = [num |-> 0, den |-> 1] /\ writes[i] = 0
        /\ pc = "done" => accuracy = seq

\* subject 1 has finished while subject 0 is between its two steps, and the
\* sequential loop gives the two subjects different accuracies
C8_Witness ==
  /\ pc = "parallel" /\ nsubjs = 2
  /\ wpc[1] = "done" /\ wpc[0] = "built"
  /\ SeqAccuracy[0] # SeqAccuracy[1]

=============================================================================
